---- MODULE Spec2Model ----
(***************************************************************************)
(* Model of jaseci_ai_kit/modules/translator/translator.py.                *)
(*                                                                         *)
(* The module is loaded top to bottom (lines 19-20, then the three         *)
(* decorated def statements at lines 23-24, 57-58 and 91-92).  Each def    *)
(* registers its action with the host framework, which may then dispatch   *)
(* calls of it to its workers concurrently.  The state is the module-level *)
(* name supported_languages, the tokenizer's src_lang field, the loader's  *)
(* position and, for every worker, the frame of the call it is running.    *)
(***************************************************************************)
EXTENDS Integers, Sequences, FiniteSets, TLC

\* ------------------------------------------------------------------ bounds

\* Calls the host framework dispatches in one behaviour.
MaxCalls == 2
\* Entries of the tokenizer's lang_code_to_id table.
NumLangs == 2
\* Longest list of strings passed to translate.
MaxBatch == 2
\* Most <mask> placeholders in a fill_mask text.
MaxMasks == 2
\* Largest topk passed to fill_mask.
MaxTopk == 3
\* Size of the model's output vocabulary (length of a logits row).
VocabSize == 3

\* The host framework's workers: two calls can be in flight at once.
Workers == {"w1", "w2"}

\* ------------------------------------------------- tokenizer and model data

\* Language codes in the order of the tokenizer's table (the first codes of
\* mBART-50's table, after its default source language).
AllCodes == <<"en_XX", "ar_AR", "cs_CZ", "de_DE", "es_XX", "et_EE">>

\* tokenizer.lang_code_to_id.keys(), in the tokenizer's order.
lang_code_to_id_keys == SubSeq(AllCodes, 1, NumLangs)

\* tokenizer.lang_code_to_id[code]: the language tokens follow the vocabulary.
lang_code_to_id(code) ==
    VocabSize + (CHOOSE i \in 1..NumLangs : lang_code_to_id_keys[i] = code)

\* The code whose language token has this id.
id_to_lang_code(id) == lang_code_to_id_keys[id - VocabSize]

\* Language codes a caller passes: two supported ones and one unsupported.
LangInputs == {AllCodes[1], AllCodes[2], "xx_XX"}

Range(s) == {s[i] : i \in DOMAIN s}

\* ------------------------------------------------------------ Python values

\* A Python value held by a name or returned by a call: a list, a function
\* object, or nothing.
ListValue(items) == [kind |-> "list", val |-> items]
FunctionValue(name) == [kind |-> "function", val |-> <<name>>]
NoValue == [kind |-> "none", val |-> <<>>]

\* An exception instance: its class and str(e).
Exc(type, msg) == [type |-> type, msg |-> msg]
NoExc == Exc("none", <<>>)

\* What the caller sees raised: nothing, an HTTPException, or another class.
NotRaised == [kind |-> "none", status_code |-> 0, detail |-> <<>>]
HTTPException(status_code, detail) ==
    [kind |-> "HTTPException", status_code |-> status_code, detail |-> detail]
Escaped(e) == [kind |-> e.type, status_code |-> 0, detail |-> e.msg]

\* ------------------------------------------------------------------- state

VARIABLES
    loadpc,               \* next statement of the module body to execute
    supported_languages,  \* value bound to the module-level name
    tokenizer_src_lang,   \* tokenizer.src_lang
    ncalls,               \* calls dispatched so far
    pc,                   \* per worker: position in the call it runs
    op,                   \* per worker: the action called
    text, src_lang, tgt_lang, topk,   \* per worker: the call's arguments
    arg_text,             \* per worker: the text argument as passed
    forced_bos_token_id,  \* per worker: local of translate
    encoded,              \* per worker: local `encoded` of translate
    generated_tokens,     \* per worker: local of translate
    input_ids,            \* per worker: local of fill_mask
    logits,               \* per worker: local of fill_mask
    gen_calls,            \* per worker: invocations of model.generate
    fault,                \* per worker: the tokenizer or model raised
    caught,               \* per worker: the `e` bound by the except clause
    result,               \* per worker: the value returned
    raised                \* per worker: the exception raised to the caller

args == <<op, arg_text, src_lang, tgt_lang, topk>>
locals == <<text, forced_bos_token_id, encoded, generated_tokens, input_ids,
            logits>>
vars == <<loadpc, supported_languages, tokenizer_src_lang, ncalls, pc, op,
          text, src_lang, tgt_lang, topk, arg_text, forced_bos_token_id,
          encoded, generated_tokens, input_ids, logits, gen_calls, fault,
          caught, result, raised>>

\* --------------------------------------------------------- pure operations

\* `x in v` (lines 37, 39, 71): membership in a list; a function object is
\* not iterable and the test raises TypeError.
contains(v, x) ==
    IF v.kind = "list"
    THEN [e |-> NoExc, r |-> x \in Range(v.val)]
    ELSE [e |-> Exc("TypeError", <<"argument of type 'function' is not iterable">>),
          r |-> FALSE]

\* Variant: the except clause catches ValueError only, so any other exception
\* leaves the call as it is.
except_ValueError_only(e) ==
    IF e.type = "ValueError" THEN HTTPException(500, e.msg) ELSE Escaped(e)

\* Lines 52-54 and 86-88: `except Exception as e` re-raises as
\* HTTPException(status_code=500, detail=str(e)).
except_Exception(e) == HTTPException(500, e.msg)

\* Lines 42-43: a single string becomes a one-element list.
normalize(t) == IF t.kind = "str" THEN ListValue(t.val) ELSE t

\* Line 46: tokenizer(text): every string is encoded behind the language
\* token of the tokenizer's current source language.
tokenizer_call(texts, lang) ==
    [i \in 1..Len(texts) |-> [lang |-> lang_code_to_id(lang), s |-> texts[i]]]

\* Lines 47-50: model.generate: one output per input, starting with the
\* forced first token.
generate(enc, bos) ==
    [i \in 1..Len(enc) |-> [bos |-> bos, lang |-> enc[i].lang, s |-> enc[i].s]]

\* The string the model yields for sentence s read as language `from` and
\* rendered in language `to`.
Translation(s, from, to) == <<s, from, to>>

\* Line 51: tokenizer.batch_decode(..., skip_special_tokens=True).
batch_decode(gen) ==
    [i \in 1..Len(gen) |->
        Translation(gen[i].s, id_to_lang_code(gen[i].lang), id_to_lang_code(gen[i].bos))]

\* tokenizer.mask_token_id: the mask token follows the language tokens.
mask_token_id == VocabSize + NumLangs + 1

\* Id of one token of the wrapped fill_mask text.
token_id(tok) ==
    IF tok = "<mask>" THEN mask_token_id
    ELSE IF tok = "</s>" THEN 0
    ELSE IF tok \in Range(lang_code_to_id_keys) THEN lang_code_to_id(tok)
    ELSE 1

\* Lines 74-77: "</s> {text} </s> {src_lang}" tokenized without special tokens.
wrap_and_encode(t, lang) ==
    LET toks == <<"</s>">> \o t \o <<"</s>", lang>>
    IN  [i \in 1..Len(toks) |-> token_id(toks[i])]

\* Line 79: model(input_ids).logits: one row of VocabSize scores per position.
model_logits(ids) ==
    [pos \in 1..Len(ids) |-> [v \in 1..VocabSize |-> (v + pos + ids[pos]) % VocabSize]]

\* Line 81: positions of the mask token, (input_ids[0] == mask_token_id).nonzero().
nonzero(ids) == {i \in 1..Len(ids) : ids[i] = mask_token_id}

\* Variant: the first mask position is taken when there are several.
item_first(positions) ==
    IF positions # {}
    THEN [e |-> NoExc, r |-> CHOOSE i \in positions : \A j \in positions : i <= j]
    ELSE [e |-> Exc("RuntimeError",
                    <<"a Tensor with 0 elements", "cannot be converted to Scalar">>),
          r |-> 0]

\* Line 81: .item() yields the only element and raises unless there is exactly one.
item(positions) ==
    IF Cardinality(positions) = 1
    THEN [e |-> NoExc, r |-> CHOOSE i \in positions : TRUE]
    ELSE [e |-> Exc("RuntimeError",
                    <<IF positions = {} THEN "a Tensor with 0 elements"
                                        ELSE "a Tensor with several elements",
                      "cannot be converted to Scalar">>),
          r |-> 0]

\* Line 82: softmax keeps the order of the scores (weights 2^score, unnormalised).
softmax(row) == [v \in DOMAIN row |-> 2 ^ row[v]]

RECURSIVE topk_from(_, _, _)
topk_from(probs, left, k) ==
    IF k = 0 THEN <<>>
    ELSE LET best == CHOOSE v \in left : \A u \in left : probs[u] <= probs[v]
         IN  <<best>> \o topk_from(probs, left \ {best}, k - 1)

\* Line 83: probs.topk(k): the k most probable ids, most probable first;
\* raises when k exceeds the row's length.
probs_topk(probs, k) ==
    IF k > Len(probs)
    THEN [e |-> Exc("RuntimeError", <<"selected index k out of range">>), r |-> <<>>]
    ELSE [e |-> NoExc, r |-> topk_from(probs, DOMAIN probs, k)]

\* A vocabulary piece starts a word unless it is a continuation piece.
starts_word(v) == v % 3 # 2

RECURSIVE decode_split(_)
\* Line 84: tokenizer.decode(predictions).split(): the pieces are joined, a
\* continuation piece sticks to the piece before it, and the string is split
\* on whitespace.  A word is the sequence of its pieces.
decode_split(preds) ==
    IF preds = <<>> THEN <<>>
    ELSE LET front == decode_split(SubSeq(preds, 1, Len(preds) - 1))
             v == preds[Len(preds)]
         IN  IF front = <<>> \/ starts_word(v)
             THEN Append(front, <<v>>)
             ELSE [front EXCEPT ![Len(front)] = Append(@, v)]

\* ------------------------------------------------------------------ inputs

StrValue(s) == [kind |-> "str", val |-> <<s>>]
Batch(n) == [i \in 1..n |-> n + 1 - i]
TranslateTexts == {StrValue(1)} \cup {ListValue(Batch(n)) : n \in 1..MaxBatch}
MaskText(k) == [i \in 1..(k + 1) |-> IF i <= k THEN "<mask>" ELSE "w"]
MaskTexts == {MaskText(k) : k \in 0..MaxMasks}

\* -------------------------------------------------------------------- Init

Init ==
    /\ loadpc = "L23"
    /\ supported_languages = ListValue(lang_code_to_id_keys)
    /\ tokenizer_src_lang = AllCodes[1]
    /\ ncalls = 0
    /\ pc = [p \in Workers |-> "idle"]
    /\ op = [p \in Workers |-> "none"]
    /\ text = [p \in Workers |-> NoValue]
    /\ arg_text = [p \in Workers |-> NoValue]
    /\ src_lang = [p \in Workers |-> "none"]
    /\ tgt_lang = [p \in Workers |-> "none"]
    /\ topk = [p \in Workers |-> 0]
    /\ forced_bos_token_id = [p \in Workers |-> 0]
    /\ encoded = [p \in Workers |-> <<>>]
    /\ generated_tokens = [p \in Workers |-> <<>>]
    /\ input_ids = [p \in Workers |-> <<>>]
    /\ logits = [p \in Workers |-> <<>>]
    /\ gen_calls = [p \in Workers |-> 0]
    /\ fault = [p \in Workers |-> FALSE]
    /\ caught = [p \in Workers |-> NoExc]
    /\ result = [p \in Workers |-> NoValue]
    /\ raised = [p \in Workers |-> NotRaised]

\* ----------------------------------------------------------- module loading

\* What a decorated def leaves bound to the function's name: jaseci_action
\* registers the function and hands it back.
jaseci_action(name) == FunctionValue(name)

\* The actions the host framework can dispatch: those whose def has run.
Registered ==
    (IF loadpc \in {"L57", "L91", "loaded"} THEN {"translate"} ELSE {})
    \cup (IF loadpc \in {"L91", "loaded"} THEN {"fill_mask"} ELSE {})
    \cup (IF loadpc = "loaded" THEN {"supported_languages"} ELSE {})

\* Lines 23-24: def translate.
LoadDefTranslate ==
    /\ loadpc = "L23"
    /\ loadpc' = "L57"
    /\ UNCHANGED <<supported_languages, tokenizer_src_lang, ncalls, pc, args,
                   locals, gen_calls, fault, caught, result, raised>>

\* Lines 57-58: def fill_mask.
LoadDefFillMask ==
    /\ loadpc = "L57"
    /\ loadpc' = "L91"
    /\ UNCHANGED <<supported_languages, tokenizer_src_lang, ncalls, pc, args,
                   locals, gen_calls, fault, caught, result, raised>>

\* Lines 91-92: def supported_languages binds the module-level name
\* supported_languages to the decorated function.
LoadDefSupportedLanguages ==
    /\ loadpc = "L91"
    /\ loadpc' = "loaded"
    /\ supported_languages' = jaseci_action("supported_languages")
    /\ UNCHANGED <<tokenizer_src_lang, ncalls, pc, args, locals, gen_calls,
                   fault, caught, result, raised>>

\* ------------------------------------------------------------ call dispatch

\* A worker starts a call of `action` with the given arguments.
Enter(p, action, t, src, tgt, k, at) ==
    /\ pc[p] = "idle"
    /\ ncalls < MaxCalls
    /\ action \in Registered
    /\ ncalls' = ncalls + 1
    /\ pc' = [pc EXCEPT ![p] = at]
    /\ op' = [op EXCEPT ![p] = action]
    /\ arg_text' = [arg_text EXCEPT ![p] = t]
    /\ text' = [text EXCEPT ![p] = t]
    /\ src_lang' = [src_lang EXCEPT ![p] = src]
    /\ tgt_lang' = [tgt_lang EXCEPT ![p] = tgt]
    /\ topk' = [topk EXCEPT ![p] = k]
    /\ UNCHANGED <<loadpc, supported_languages, tokenizer_src_lang,
                   forced_bos_token_id, encoded, generated_tokens, input_ids,
                   logits, gen_calls, fault, caught, result, raised>>

\* Line 24: translate(text, src_lang, tgt_lang) is called.
CallTranslate(p) ==
    \E t \in TranslateTexts, src \in LangInputs, tgt \in LangInputs :
        Enter(p, "translate", t, src, tgt, 0, "T37")

\* Line 58: fill_mask(text, src_lang, topk) is called.
CallFillMask(p) ==
    \E t \in MaskTexts, src \in LangInputs, k \in 1..MaxTopk :
        Enter(p, "fill_mask", ListValue(t), src, "none", k, "F71")

\* Line 92: supported_languages() is called.
CallSupportedLanguages(p) ==
    Enter(p, "supported_languages", NoValue, "none", "none", 0, "S99")

\* The caller takes the outcome and the worker is free again.
Collect(p) ==
    /\ pc[p] = "done"
    /\ pc' = [pc EXCEPT ![p] = "idle"]
    /\ op' = [op EXCEPT ![p] = "none"]
    /\ arg_text' = [arg_text EXCEPT ![p] = NoValue]
    /\ text' = [text EXCEPT ![p] = NoValue]
    /\ src_lang' = [src_lang EXCEPT ![p] = "none"]
    /\ tgt_lang' = [tgt_lang EXCEPT ![p] = "none"]
    /\ topk' = [topk EXCEPT ![p] = 0]
    /\ gen_calls' = [gen_calls EXCEPT ![p] = 0]
    /\ fault' = [fault EXCEPT ![p] = FALSE]
    /\ caught' = [caught EXCEPT ![p] = NoExc]
    /\ result' = [result EXCEPT ![p] = NoValue]
    /\ raised' = [raised EXCEPT ![p] = NotRaised]
    /\ UNCHANGED <<loadpc, supported_languages, tokenizer_src_lang, ncalls,
                   forced_bos_token_id, encoded, generated_tokens, input_ids,
                   logits>>

\* ------------------------------------------------------- leaving a call

\* The locals of worker p's frame are dropped when its call ends.
DropLocals(p) ==
    /\ forced_bos_token_id' = [forced_bos_token_id EXCEPT ![p] = 0]
    /\ encoded' = [encoded EXCEPT ![p] = <<>>]
    /\ generated_tokens' = [generated_tokens EXCEPT ![p] = <<>>]
    /\ input_ids' = [input_ids EXCEPT ![p] = <<>>]
    /\ logits' = [logits EXCEPT ![p] = <<>>]

\* An exception e raised inside the try block reaches the except clause
\* (lines 52-54, 86-88) and the call ends raising what the clause raises.
Raise(p, e) ==
    /\ pc' = [pc EXCEPT ![p] = "done"]
    /\ caught' = [caught EXCEPT ![p] = e]
    /\ raised' = [raised EXCEPT ![p] = except_Exception(e)]
    /\ DropLocals(p)
    /\ UNCHANGED <<text, result>>

\* The call ends returning v.
Return(p, v) ==
    /\ pc' = [pc EXCEPT ![p] = "done"]
    /\ result' = [result EXCEPT ![p] = v]
    /\ DropLocals(p)
    /\ UNCHANGED <<text, caught, raised>>

\* A collaborator (tokenizer or model) raises at this step.
CollaboratorFails(p, what) ==
    /\ fault' = [fault EXCEPT ![p] = TRUE]
    /\ Raise(p, Exc("RuntimeError", <<what, "failed">>))

\* ---------------------------------------------------------------- translate

\* Variant: tokenizer.src_lang is written before the source language is tested.
TranslateCheckSrc_writes_first(p) ==
    /\ pc[p] = "T37"
    /\ tokenizer_src_lang' = src_lang[p]
    /\ LET c == contains(supported_languages, src_lang[p])
       IN  IF c.e # NoExc THEN Raise(p, c.e)
           ELSE IF ~c.r
           THEN Raise(p, Exc("ValueError", <<"Unsupported source language: ", src_lang[p]>>))
           ELSE /\ pc' = [pc EXCEPT ![p] = "T39"]
                /\ UNCHANGED <<locals, caught, result, raised>>
    /\ UNCHANGED <<loadpc, supported_languages, ncalls, args, gen_calls, fault>>

\* Lines 37-38: the source language is tested against supported_languages.
TranslateCheckSrc(p) ==
    /\ pc[p] = "T37"
    /\ LET c == contains(supported_languages, src_lang[p])
       IN  IF c.e # NoExc THEN Raise(p, c.e)
           ELSE IF ~c.r
           THEN Raise(p, Exc("ValueError", <<"Unsupported source language: ", src_lang[p]>>))
           ELSE /\ pc' = [pc EXCEPT ![p] = "T39"]
                /\ UNCHANGED <<locals, caught, result, raised>>
    /\ UNCHANGED <<loadpc, supported_languages, tokenizer_src_lang, ncalls,
                   args, gen_calls, fault>>

\* Lines 39-40: the target language is tested against supported_languages.
TranslateCheckTgt(p) ==
    /\ pc[p] = "T39"
    /\ LET c == contains(supported_languages, tgt_lang[p])
       IN  IF c.e # NoExc THEN Raise(p, c.e)
           ELSE IF ~c.r
           THEN Raise(p, Exc("ValueError", <<"Unsupported target language: ", tgt_lang[p]>>))
           ELSE /\ pc' = [pc EXCEPT ![p] = "T42"]
                /\ UNCHANGED <<locals, caught, result, raised>>
    /\ UNCHANGED <<loadpc, supported_languages, tokenizer_src_lang, ncalls,
                   args, gen_calls, fault>>

\* Lines 42-45: text is normalised, tokenizer.src_lang is written and the
\* forced first token of the target language is looked up.
TranslateSetSrcLang(p) ==
    /\ pc[p] = "T42"
    /\ text' = [text EXCEPT ![p] = normalize(text[p])]
    /\ tokenizer_src_lang' = src_lang[p]
    /\ forced_bos_token_id' =
           [forced_bos_token_id EXCEPT ![p] = lang_code_to_id(tgt_lang[p])]
    /\ pc' = [pc EXCEPT ![p] = "T46"]
    /\ UNCHANGED <<loadpc, supported_languages, ncalls, args, encoded,
                   generated_tokens, input_ids, logits, gen_calls, fault,
                   caught, result, raised>>

\* Variant: the source language is passed to the tokenizer per call instead
\* of being read from its shared field.
TranslateEncode_per_call(p) ==
    /\ pc[p] = "T46"
    /\ \/ /\ encoded' = [encoded EXCEPT
                            ![p] = tokenizer_call(text[p].val, src_lang[p])]
          /\ pc' = [pc EXCEPT ![p] = "T47"]
          /\ UNCHANGED <<text, forced_bos_token_id, generated_tokens,
                         input_ids, logits, fault, caught, result, raised>>
       \/ CollaboratorFails(p, "tokenizer")
    /\ UNCHANGED <<loadpc, supported_languages, tokenizer_src_lang, ncalls,
                   args, gen_calls>>

\* Line 46: the tokenizer encodes text under its current src_lang.
TranslateEncode(p) ==
    /\ pc[p] = "T46"
    /\ \/ /\ encoded' = [encoded EXCEPT
                            ![p] = tokenizer_call(text[p].val, tokenizer_src_lang)]
          /\ pc' = [pc EXCEPT ![p] = "T47"]
          /\ UNCHANGED <<text, forced_bos_token_id, generated_tokens,
                         input_ids, logits, fault, caught, result, raised>>
       \/ CollaboratorFails(p, "tokenizer")
    /\ UNCHANGED <<loadpc, supported_languages, tokenizer_src_lang, ncalls,
                   args, gen_calls>>

\* Lines 47-50: model.generate is invoked.
TranslateGenerate(p) ==
    /\ pc[p] = "T47"
    /\ gen_calls' = [gen_calls EXCEPT ![p] = @ + 1]
    /\ \/ /\ generated_tokens' = [generated_tokens EXCEPT
                ![p] = generate(encoded[p], forced_bos_token_id[p])]
          /\ pc' = [pc EXCEPT ![p] = "T51"]
          /\ UNCHANGED <<text, forced_bos_token_id, encoded, input_ids,
                         logits, fault, caught, result, raised>>
       \/ CollaboratorFails(p, "model.generate")
    /\ UNCHANGED <<loadpc, supported_languages, tokenizer_src_lang, ncalls,
                   args>>

\* Line 51: the generated tokens are decoded and the list is returned.
TranslateDecode(p) ==
    /\ pc[p] = "T51"
    /\ \/ /\ Return(p, ListValue(batch_decode(generated_tokens[p])))
          /\ UNCHANGED fault
       \/ CollaboratorFails(p, "tokenizer.batch_decode")
    /\ UNCHANGED <<loadpc, supported_languages, tokenizer_src_lang, ncalls,
                   args, gen_calls>>

\* ---------------------------------------------------------------- fill_mask

\* Lines 71-72: the source language is tested against supported_languages.
FillMaskCheckSrc(p) ==
    /\ pc[p] = "F71"
    /\ LET c == contains(supported_languages, src_lang[p])
       IN  IF c.e # NoExc THEN Raise(p, c.e)
           ELSE IF ~c.r
           THEN Raise(p, Exc("ValueError", <<"Unsupported source language: ", src_lang[p]>>))
           ELSE /\ pc' = [pc EXCEPT ![p] = "F74"]
                /\ UNCHANGED <<locals, caught, result, raised>>
    /\ UNCHANGED <<loadpc, supported_languages, tokenizer_src_lang, ncalls,
                   args, gen_calls, fault>>

\* Lines 74-77: the text is wrapped and tokenized.
FillMaskEncode(p) ==
    /\ pc[p] = "F74"
    /\ \/ /\ input_ids' = [input_ids EXCEPT
                              ![p] = wrap_and_encode(text[p].val, src_lang[p])]
          /\ pc' = [pc EXCEPT ![p] = "F78"]
          /\ UNCHANGED <<text, forced_bos_token_id, encoded, generated_tokens,
                         logits, fault, caught, result, raised>>
       \/ CollaboratorFails(p, "tokenizer")
    /\ UNCHANGED <<loadpc, supported_languages, tokenizer_src_lang, ncalls,
                   args, gen_calls>>

\* Lines 78-79: one forward pass of the model.
FillMaskForward(p) ==
    /\ pc[p] = "F78"
    /\ \/ /\ logits' = [logits EXCEPT ![p] = model_logits(input_ids[p])]
          /\ pc' = [pc EXCEPT ![p] = "F81"]
          /\ UNCHANGED <<text, forced_bos_token_id, encoded, generated_tokens,
                         input_ids, fault, caught, result, raised>>
       \/ CollaboratorFails(p, "model")
    /\ UNCHANGED <<loadpc, supported_languages, tokenizer_src_lang, ncalls,
                   args, gen_calls>>

\* Lines 81-85: the mask position is looked up, the topk most probable ids at
\* it are decoded and split, and the words are returned.
FillMaskPredict(p) ==
    /\ pc[p] = "F81"
    /\ LET masked_index == item(nonzero(input_ids[p]))
       IN  IF masked_index.e # NoExc THEN Raise(p, masked_index.e)
           ELSE LET probs == softmax(logits[p][masked_index.r])
                    predictions == probs_topk(probs, topk[p])
                IN  IF predictions.e # NoExc THEN Raise(p, predictions.e)
                    ELSE Return(p, ListValue(decode_split(predictions.r)))
    /\ UNCHANGED <<loadpc, supported_languages, tokenizer_src_lang, ncalls,
                   args, gen_calls, fault>>

\* ------------------------------------------------------ supported_languages

\* Line 99: the value bound to the name supported_languages is returned.
SupportedLanguagesReturn(p) ==
    /\ pc[p] = "S99"
    /\ Return(p, supported_languages)
    /\ UNCHANGED <<loadpc, supported_languages, tokenizer_src_lang, ncalls,
                   args, gen_calls, fault>>

\* ------------------------------------------------------------ specification

Next ==
    \/ LoadDefTranslate
    \/ LoadDefFillMask
    \/ LoadDefSupportedLanguages
    \/ \E p \in Workers : CallTranslate(p)
    \/ \E p \in Workers : CallFillMask(p)
    \/ \E p \in Workers : CallSupportedLanguages(p)
    \/ \E p \in Workers : TranslateCheckSrc(p)
    \/ \E p \in Workers : TranslateCheckTgt(p)
    \/ \E p \in Workers : TranslateSetSrcLang(p)
    \/ \E p \in Workers : TranslateEncode(p)
    \/ \E p \in Workers : TranslateGenerate(p)
    \/ \E p \in Workers : TranslateDecode(p)
    \/ \E p \in Workers : FillMaskCheckSrc(p)
    \/ \E p \in Workers : FillMaskEncode(p)
    \/ \E p \in Workers : FillMaskForward(p)
    \/ \E p \in Workers : FillMaskPredict(p)
    \/ \E p \in Workers : SupportedLanguagesReturn(p)
    \/ \E p \in Workers : Collect(p)

Spec == Init /\ [][Next]_vars

\* ------------------------------------------------------------ vocabulary of
\* the properties

Supported(code) == code \in Range(lang_code_to_id_keys)
Done(p) == pc[p] = "done"
Returned(p) == Done(p) /\ raised[p] = NotRaised
Http500(p, detail) ==
    Done(p) /\ raised[p] = HTTPException(500, detail) /\ result[p] = NoValue
Items(p) == normalize(arg_text[p]).val
MaskCount(p) == Cardinality({i \in DOMAIN arg_text[p].val : arg_text[p].val[i] = "<mask>"})

RECURSIVE Flatten(_)
Flatten(words) ==
    IF words = <<>> THEN <<>> ELSE Head(words) \o Flatten(Tail(words))

\* The k most probable ids of a row, most probable first.
Descending(row, k) ==
    CHOOSE r \in [1..k -> DOMAIN row] :
        /\ \A i, j \in 1..k : i < j => row[r[i]] > row[r[j]]
        /\ \A v \in DOMAIN row : (\A i \in 1..k : r[i] # v) => \A i \in 1..k : row[v] < row[r[i]]

\* --------------------------------------------------------------- properties

\* C1: a translate call given an unsupported source or target language ends
\* with the validation error of that language (surfaced as the service
\* fault carrying its message), never invokes model.generate, and no other
\* exception is the cause of the failure.
C1_UnsupportedIsValidationError ==
    \A p \in Workers :
        (Done(p) /\ op[p] = "translate"
            /\ (~Supported(src_lang[p]) \/ ~Supported(tgt_lang[p])))
        => /\ gen_calls[p] = 0
           /\ caught[p].type = "ValueError"
           /\ IF ~Supported(src_lang[p])
              THEN Http500(p, <<"Unsupported source language: ", src_lang[p]>>)
              ELSE Http500(p, <<"Unsupported target language: ", tgt_lang[p]>>)

\* C2: a translate call with supported source and target languages, in which
\* tokenizer and model do not fail, returns one translation per input
\* string, in input order, each made from this call's src_lang to this
\* call's tgt_lang.
C2_TranslateSucceeds ==
    \A p \in Workers :
        (Done(p) /\ op[p] = "translate" /\ ~fault[p]
            /\ Supported(src_lang[p]) /\ Supported(tgt_lang[p]))
        => /\ Returned(p)
           /\ result[p] = ListValue([i \in 1..Len(Items(p)) |->
                              Translation(Items(p)[i], src_lang[p], tgt_lang[p])])

\* C3: every supported_languages() call returns, without error, the list of
\* language codes taken from the tokenizer at startup: non-empty, free of
\* duplicates, in the tokenizer's order, the same on every call.
C3_SupportedLanguagesReturnsList ==
    \A p \in Workers :
        (Done(p) /\ op[p] = "supported_languages")
        => /\ Returned(p)
           /\ result[p] = ListValue(lang_code_to_id_keys)
           /\ result[p].val # <<>>
           /\ \A i, j \in DOMAIN result[p].val :
                  result[p].val[i] = result[p].val[j] => i = j

\* C4: every translate or fill_mask call ends either returning a list or
\* raising HTTPException with status 500 whose detail is the text of the
\* exception that was raised inside it; no other exception class escapes, no
\* result accompanies a failure, and model.generate runs at most once.
C4_ListOrHttp500 ==
    \A p \in Workers :
        (Done(p) /\ op[p] \in {"translate", "fill_mask"})
        => /\ gen_calls[p] <= 1
           /\ \/ /\ raised[p] = NotRaised
                 /\ caught[p] = NoExc
                 /\ result[p].kind = "list"
              \/ /\ caught[p] # NoExc
                 /\ Http500(p, caught[p].msg)

C4_Witness ==
    \E p \in Workers :
        /\ Done(p) /\ op[p] = "translate" /\ gen_calls[p] = 1
        /\ caught[p] = Exc("RuntimeError", <<"model.generate", "failed">>)
        /\ Http500(p, <<"model.generate", "failed">>)

C7_FillMaskReturnsTopk ==
    \A p \in Workers :
        (Done(p) /\ op[p] = "fill_mask" /\ ~fault[p]
            /\ Supported(src_lang[p]) /\ MaskCount(p) = 1
            /\ topk[p] <= VocabSize)
        => /\ Returned(p)
           /\ Len(result[p].val) <= topk[p]
           /\ LET ids == wrap_and_encode(arg_text[p].val, src_lang[p])
                  at == CHOOSE i \in DOMAIN ids : ids[i] = mask_token_id
              IN  Flatten(result[p].val) = Descending(model_logits(ids)[at], topk[p])

C10_NameStaysBoundToList ==
    loadpc = "loaded" => supported_languages = ListValue(lang_code_to_id_keys)

====
